---- MODULE Spec2Model ----
(***************************************************************************)
(* Movie service of src/services/crud.py behind the handlers of            *)
(* src/routes/movies.py.  The store holds the movie table and the four     *)
(* related tables; every request runs the statements of its handler, one   *)
(* action per awaited segment, and a request's rows become visible to      *)
(* other requests when it commits.                                         *)
(***************************************************************************)
EXTENDS Integers, Sequences, FiniteSets, TLC

VARIABLES movies, rel, nextId, nextRel, req

vars == <<movies, rel, nextId, nextRel, req>>

\* ------------------------------------------------------------------ bounds
MaxId == 2
MaxPage == 3
MaxPerPage == 2
MaxRelId == 4

\* ------------------------------------------------------------- input sets
Procs == {1, 2}
SeqProcs == {1}
Names == {"Dune", "Alien"}
Dates == {2024, 2025}
Scores == {85}
NewScores == {10}
CountryCodes == {"US"}
Tables == {"genres", "actors", "languages", "country"}
Ids == 1..(MaxId + 1)

GenreLists == {<<"Sci-Fi">>, <<"Drama">>, <<"Sci-Fi", "Drama">>}
ActorLists == {<<"A">>}
LanguageLists == {<<"English">>}

\* MovieCreateSchema: every field is required.
MovieCreateSchema ==
    [name : Names, date : Dates, score : Scores, country : CountryCodes,
     genres : GenreLists, actors : ActorLists, languages : LanguageLists]

\* MovieUpdateSchema: every field optional; fields_set is what the request
\* supplied, an unsupplied field holds its default.
NoName == "None"
NoNumber == -1
MovieUpdateSchema ==
    {d \in [fields_set : SUBSET {"name", "date", "score"},
            name : Names \cup {NoName}, date : Dates \cup {NoNumber},
            score : NewScores \cup {NoNumber}] :
        /\ ("name" \in d.fields_set) <=> (d.name # NoName)
        /\ ("date" \in d.fields_set) <=> (d.date # NoNumber)
        /\ ("score" \in d.fields_set) <=> (d.score # NoNumber)}

\* ------------------------------------------------------------ the request
NoData == [name |-> NoName]
NoSnap == [movies |-> {}, rel |-> [t \in Tables |-> {}]]
NoLink == <<>>
Idle ==
    [op |-> "none", pc |-> "idle", status |-> 0, id |-> 0, page |-> 0,
     per_page |-> 0, data |-> NoData, todo |-> <<>>,
     pending |-> [t \in Tables |-> {}], links |-> [t \in Tables |-> <<>>],
     result |-> <<>>, prev_page |-> NoLink, next_page |-> NoLink,
     total_pages |-> 0, total_items |-> 0, dels |-> 0, snap |-> NoSnap]

Free(p) == req[p].pc = "idle"
Snapshot == [movies |-> movies, rel |-> rel]
Start(op) == [Idle EXCEPT !.op = op, !.snap = Snapshot]
Done(r, status, result) ==
    [r EXCEPT !.pc = "done", !.status = status, !.result = result,
              !.pending = [t \in Tables |-> {}]]

\* ------------------------------------------------------------- the store
MovieIds(ms) == {m.id : m \in ms}
RowById(ms, id) == CHOOSE m \in ms : m.id = id
RowsByIds(rows, ids) == {r \in rows : r.id \in ids}

\* joinedload / selectinload of country, genres, actors, languages
Hydrate(m, rl) ==
    [id |-> m.id, name |-> m.name, date |-> m.date, score |-> m.score,
     country |-> RowsByIds(rl["country"], {m.country}),
     genres |-> RowsByIds(rl["genres"], m.genres),
     actors |-> RowsByIds(rl["actors"], m.actors),
     languages |-> RowsByIds(rl["languages"], m.languages)]

HydrateAll(s, rl) == [i \in 1..Len(s) |-> Hydrate(s[i], rl)]

\* select ... order_by(desc(MovieModel.id))
RECURSIVE OrderByIdDesc(_)
OrderByIdDesc(ms) ==
    IF ms = {} THEN <<>>
    ELSE LET top == CHOOSE m \in ms : \A o \in ms : o.id <= m.id
         IN  <<top>> \o OrderByIdDesc(ms \ {top})

Min(a, b) == IF a <= b THEN a ELSE b

\* .offset(off).limit(lim) of an ordered result
OffsetLimit(s, off, lim) == SubSeq(s, off + 1, Min(Len(s), off + lim))

\* The store enforces no uniqueness of (name, date) or of a natural key: a
\* commit never fails on a duplicate.
StoreAccepts(ms, row) == TRUE

Init ==
    /\ movies = {}
    /\ rel = [t \in Tables |-> {}]
    /\ nextId = 1
    /\ nextRel = [t \in Tables |-> 1]
    /\ req = [p \in Procs |-> Idle]

\* ------------------------------------------------------------- get_movies
PageOffsetBug(page, per_page) == page * per_page
PageOffset(page, per_page) == (page - 1) * per_page

get_obj_countBug(ms) == Cardinality({m \in ms : m.id > 1})
get_obj_count(ms) == Cardinality(ms)

TotalPagesBug(total_items, per_page) == total_items \div per_page
TotalPages(total_items, per_page) == (total_items + per_page - 1) \div per_page

NoMoviesBug(fetched) == FALSE
NoMovies(fetched) == fetched = <<>>

\* lines 23-36: the page query
ListFetch(p) ==
    \E page \in 1..MaxPage, per_page \in 1..MaxPerPage :
        /\ Free(p)
        /\ req' = [req EXCEPT ![p] =
              [Start("list") EXCEPT
                  !.pc = "count", !.page = page, !.per_page = per_page,
                  !.result = HydrateAll(
                      OffsetLimit(OrderByIdDesc(movies),
                                  PageOffset(page, per_page), per_page), rel)]]
        /\ UNCHANGED <<movies, rel, nextId, nextRel>>

\* lines 38-58: the count query and the response
ListCount(p) ==
    /\ req[p].op = "list" /\ req[p].pc = "count"
    /\ LET r == req[p]
           total_items == get_obj_count(movies)
           total_pages == TotalPages(total_items, r.per_page)
           prev_page == IF r.page > 1 THEN <<r.page - 1, r.per_page>> ELSE NoLink
           next_page == IF r.page < total_pages
                        THEN <<r.page + 1, r.per_page>> ELSE NoLink
       IN  req' = [req EXCEPT ![p] =
              IF NoMovies(r.result)
              THEN Done(r, 404, <<>>)
              ELSE [Done(r, 200, r.result) EXCEPT
                       !.prev_page = prev_page, !.next_page = next_page,
                       !.total_pages = total_pages, !.total_items = total_items]]
    /\ UNCHANGED <<movies, rel, nextId, nextRel>>

\* ------------------------------------------------------------ create_film
\* lines 61-77: 0 when the check passes, else the status raised;
\* scalar_one_or_none raises on two or more matching rows.
name_data_unique_validaton(ms, d) ==
    LET n == Cardinality({m \in ms : m.name = d.name /\ m.date = d.date})
    IN  IF n = 0 THEN 0 ELSE IF n = 1 THEN 409 ELSE 500

Pairs(t, keys) == [i \in 1..Len(keys) |-> <<t, keys[i]>>]

\* lines 100-112: the get_or_create calls in the order they are awaited
Todo(d) ==
    Pairs("genres", d.genres) \o Pairs("actors", d.actors)
        \o Pairs("languages", d.languages) \o <<<<"country", d.country>>>>

InFlight == Cardinality({q \in Procs : req[q].op = "create" /\ ~Free(q)})

\* The ids a create may still draw: the model stops creating at MaxId movie
\* rows and MaxRelId related rows per table.
HasRoom ==
    /\ nextId + InFlight <= MaxId
    /\ \A t \in Tables : nextRel[t] <= MaxRelId

\* line 98, first statement of the handler
CreateCheck(p, inputs) ==
    \E d \in inputs :
        /\ Free(p)
        /\ LET r == [Start("create") EXCEPT !.data = d]
               s == name_data_unique_validaton(movies, d)
           IN  /\ s = 0 => HasRoom
               /\ req' = [req EXCEPT ![p] =
                      IF s # 0 THEN Done(r, s, <<>>)
                      ELSE [r EXCEPT !.pc = "resolve", !.todo = Todo(d)]]
        /\ UNCHANGED <<movies, rel, nextId, nextRel>>

\* line 82-84: select(model).filter_by(**kwargs)
FilterByBug(rows, key) == {}
FilterBy(rows, key) == {r \in rows : r.key = key}

\* lines 80-94, one call
get_or_create(p) ==
    /\ req[p].op = "create" /\ req[p].pc = "resolve"
    /\ LET r == req[p]
           t == Head(r.todo)[1]
           key == Head(r.todo)[2]
           found == FilterBy(rel[t] \cup r.pending[t], key)
           instance == IF found = {} THEN [id |-> nextRel[t], key |-> key]
                       ELSE CHOOSE x \in found : TRUE
           rest == Tail(r.todo)
       IN  IF Cardinality(found) > 1
           THEN /\ req' = [req EXCEPT ![p] = Done(r, 500, <<>>)]
                /\ UNCHANGED nextRel
           ELSE /\ req' = [req EXCEPT ![p] =
                      [r EXCEPT !.todo = rest,
                                !.pc = IF rest = <<>> THEN "commit" ELSE "resolve",
                                !.pending[t] = IF found = {} THEN @ \cup {instance} ELSE @,
                                !.links[t] = Append(@, instance.id)]]
                /\ nextRel' = IF found = {} THEN [nextRel EXCEPT ![t] = @ + 1]
                              ELSE nextRel
    /\ UNCHANGED <<movies, rel, nextId>>

Range(s) == {s[i] : i \in 1..Len(s)}

\* lines 114-126
NewMovie(id, d, links) ==
    [id |-> id, name |-> d.name, date |-> d.date, score |-> d.score,
     country |-> links["country"][1], genres |-> Range(links["genres"]),
     actors |-> Range(links["actors"]), languages |-> Range(links["languages"])]

\* lines 127-128: db.add(new_movie); commit
InsertMovieBug(ms, row) ==
    IF \E m \in ms : m.name = row.name /\ m.date = row.date THEN ms ELSE ms \cup {row}
InsertMovie(ms, row) == IF StoreAccepts(ms, row) THEN ms \cup {row} ELSE ms

CreateCommit(p) ==
    /\ req[p].op = "create" /\ req[p].pc = "commit"
    /\ LET r == req[p]
       IN  /\ movies' = InsertMovie(movies, NewMovie(nextId, r.data, r.links))
           /\ rel' = [t \in Tables |-> rel[t] \cup r.pending[t]]
           /\ req' = [req EXCEPT ![p] =
                  [r EXCEPT !.pc = "refetch", !.id = nextId,
                            !.pending = [t \in Tables |-> {}]]]
    /\ nextId' = nextId + 1
    /\ UNCHANGED nextRel

\* lines 129-144: refresh and the select with the relations loaded
CreateRefetch(p) ==
    /\ req[p].op = "create" /\ req[p].pc = "refetch"
    /\ LET r == req[p]
       IN  req' = [req EXCEPT ![p] =
              IF r.id \in MovieIds(movies)
              THEN Done(r, 201, <<Hydrate(RowById(movies, r.id), rel)>>)
              ELSE Done(r, 500, <<>>)]
    /\ UNCHANGED <<movies, rel, nextId, nextRel>>

\* ------------------------------------------------------ get_movie_with_id
get_movie_with_id(p) ==
    \E id \in Ids :
        /\ Free(p)
        /\ req' = [req EXCEPT ![p] =
              LET r == [Start("get") EXCEPT !.id = id]
              IN  IF id \in MovieIds(movies)
                  THEN Done(r, 200, <<Hydrate(RowById(movies, id), rel)>>)
                  ELSE Done(r, 404, <<>>)]
        /\ UNCHANGED <<movies, rel, nextId, nextRel>>

\* ----------------------------------------------------------- delete_movie
\* lines 167-172
DeleteSelect(p) ==
    \E id \in Ids :
        /\ Free(p)
        /\ req' = [req EXCEPT ![p] =
              LET r == [Start("delete") EXCEPT !.id = id]
              IN  IF id \in MovieIds(movies)
                  THEN [r EXCEPT !.pc = "delete"]
                  ELSE Done(r, 404, <<>>)]
        /\ UNCHANGED <<movies, rel, nextId, nextRel>>

DeleteRowBug(ms, id) == {m \in ms : m.id < id}
DeleteRow(ms, id) == {m \in ms : m.id # id}

\* lines 173-175; a row another request deleted meanwhile makes the DELETE
\* match nothing and the commit raise.  dels counts, for a list request
\* between its two queries, the deletes committed meanwhile.
DeleteCommit(p) ==
    /\ req[p].op = "delete" /\ req[p].pc = "delete"
    /\ LET r == req[p]
           there == r.id \in MovieIds(movies)
       IN  /\ movies' = IF there THEN DeleteRow(movies, r.id) ELSE movies
           /\ req' = [q \in Procs |->
                  IF q = p THEN Done(r, IF there THEN 204 ELSE 500, <<>>)
                  ELSE IF there /\ req[q].op = "list" /\ req[q].pc = "count"
                       THEN [req[q] EXCEPT !.dels = @ + 1]
                       ELSE req[q]]
    /\ UNCHANGED <<rel, nextId, nextRel>>

\* ----------------------------------------------------------- update_movie
\* lines 179-184
UpdateSelect(p) ==
    \E id \in Ids, d \in MovieUpdateSchema :
        /\ Free(p)
        /\ req' = [req EXCEPT ![p] =
              LET r == [Start("update") EXCEPT !.id = id, !.data = d]
              IN  IF id \in MovieIds(movies)
                  THEN [r EXCEPT !.pc = "apply"]
                  ELSE Done(r, 404, <<>>)]
        /\ UNCHANGED <<movies, rel, nextId, nextRel>>

\* lines 186-188: model_dump(exclude_unset=True), then setattr per key
SetAttrsBug(m, d) == [m EXCEPT !.name = d.name, !.date = d.date, !.score = d.score]
SetAttrs(m, d) ==
    [m EXCEPT !.name = IF "name" \in d.fields_set THEN d.name ELSE @,
              !.date = IF "date" \in d.fields_set THEN d.date ELSE @,
              !.score = IF "score" \in d.fields_set THEN d.score ELSE @]

\* lines 186-193
UpdateCommit(p) ==
    /\ req[p].op = "update" /\ req[p].pc = "apply"
    /\ LET r == req[p]
           there == r.id \in MovieIds(movies)
           row == SetAttrs(RowById(movies, r.id), r.data)
       IN  /\ movies' = IF there /\ StoreAccepts(movies, row)
                        THEN DeleteRow(movies, r.id) \cup {row} ELSE movies
           /\ req' = [req EXCEPT ![p] =
                  IF there THEN Done(r, 200, <<Hydrate(row, rel)>>)
                  ELSE Done(r, 500, <<>>)]
    /\ UNCHANGED <<rel, nextId, nextRel>>

\* ------------------------------------------------------------ the routes
\* The handler returns the response (or the raised error) and the request ends.
Respond(p) ==
    /\ req[p].pc = "done"
    /\ req' = [req EXCEPT ![p] = Idle]
    /\ UNCHANGED <<movies, rel, nextId, nextRel>>

\* --------------------------------------------------------- specifications
\* One request at a time: a handler runs to its end before the next starts.
Next ==
    \E p \in SeqProcs :
        \/ ListFetch(p)
        \/ ListCount(p)
        \/ CreateCheck(p, MovieCreateSchema)
        \/ get_or_create(p)
        \/ CreateCommit(p)
        \/ CreateRefetch(p)
        \/ get_movie_with_id(p)
        \/ DeleteSelect(p)
        \/ DeleteCommit(p)
        \/ UpdateSelect(p)
        \/ UpdateCommit(p)
        \/ Respond(p)

Spec == Init /\ [][Next]_vars

\* Requests in parallel: the awaited segments of different requests interleave.
ConcCreates ==
    {d \in MovieCreateSchema : d.date = 2025 /\ d.genres \in {<<"Sci-Fi">>}}

Writers == {1}
Readers == {2}

NextConc ==
    \/ \E p \in Procs :
          \/ CreateCheck(p, ConcCreates)
          \/ get_or_create(p)
          \/ CreateCommit(p)
          \/ CreateRefetch(p)
          \/ Respond(p)
    \/ \E p \in Writers :
          \/ DeleteSelect(p)
          \/ DeleteCommit(p)
    \/ \E p \in Readers :
          \/ ListFetch(p)
          \/ ListCount(p)

SpecConc == Init /\ [][NextConc]_vars
\* ------------------------------------------------------------ properties
Finished(p, op) == req[p].op = op /\ req[p].pc = "done"
SameNameDate(a, b) == a.name = b.name /\ a.date = b.date
KeysOf(rows) == {r.key : r \in rows}
Named(d, t) == IF t = "country" THEN {d.country} ELSE Range(d[t])

\* C1: no two distinct movie rows have both the same name and the same
\* date, in every state that create, update and delete requests run one at
\* a time can reach.
C1_NameDateUnique ==
    \A a \in movies, b \in movies : SameNameDate(a, b) => a.id = b.id

\* C2: a create whose (name, date) equals that of an existing movie row
\* ends with 409 and leaves the movie table and the four related tables as
\* they were when it started.
C2_DuplicateCreateConflicts ==
    \A p \in Procs :
        (/\ Finished(p, "create")
         /\ \E m \in req[p].snap.movies : SameNameDate(m, req[p].data))
        => /\ req[p].status = 409
           /\ movies = req[p].snap.movies
           /\ rel = req[p].snap.rel

\* C3: each related table holds at most one row per natural key; a
\* successful create adds exactly one row for every named key that was
\* missing and none for a key that existed, links the movie to the rows of
\* the named keys, and movies naming the same key share one row.
C3_GetOrCreateDeduplicates ==
    /\ \A t \in Tables : \A a \in rel[t], b \in rel[t] : a.key = b.key => a = b
    /\ \A p \in Procs :
        (Finished(p, "create") /\ req[p].status = 201) =>
            \A t \in Tables :
                LET before == req[p].snap.rel[t]
                    added == rel[t] \ before
                    named == Named(req[p].data, t)
                IN  /\ before \subseteq rel[t]
                    /\ KeysOf(added) = named \ KeysOf(before)
                    /\ Cardinality(added) = Cardinality(named \ KeysOf(before))
                    /\ \A k \in named : Cardinality({r \in rel[t] : r.key = k}) = 1
                    /\ req[p].result[1][t] = {r \in rel[t] : r.key \in named}

C3_Witness ==
    \E p \in Procs :
        /\ Finished(p, "create") /\ req[p].status = 201
        /\ req[p].data.genres = <<"Sci-Fi", "Drama">>
        /\ KeysOf(req[p].snap.rel["genres"]) = {"Sci-Fi"}
        /\ \E a \in movies, b \in movies : a.id # b.id /\ a.genres \cap b.genres # {}

\* C4: a successful update changes, on the movie with the given id, the
\* supplied fields to the supplied values and nothing else: the other
\* fields and the relations of that movie, every other movie row and every
\* related row stay as they were.
C4_UpdateChangesSuppliedFieldsOnly ==
    \A p \in Procs :
        (Finished(p, "update") /\ req[p].status = 200) =>
            LET r == req[p]
                d == r.data
                old == RowById(r.snap.movies, r.id)
                new == RowById(movies, r.id)
            IN  /\ r.id \in MovieIds(r.snap.movies) /\ r.id \in MovieIds(movies)
                /\ new.name = (IF "name" \in d.fields_set THEN d.name ELSE old.name)
                /\ new.date = (IF "date" \in d.fields_set THEN d.date ELSE old.date)
                /\ new.score = (IF "score" \in d.fields_set THEN d.score ELSE old.score)
                /\ new.country = old.country /\ new.genres = old.genres
                /\ new.actors = old.actors /\ new.languages = old.languages
                /\ movies \ {new} = r.snap.movies \ {old}
                /\ Cardinality(movies) = Cardinality(r.snap.movies)
                /\ rel = r.snap.rel

C4_Witness ==
    \E p \in Procs :
        /\ Finished(p, "update") /\ req[p].status = 200
        /\ req[p].data.fields_set = {"name"}
        /\ RowById(req[p].snap.movies, req[p].id).name # req[p].data.name
        /\ Cardinality(movies) = 2

\* C5: delete on an id with no movie row ends with 404 and changes
\* nothing; delete on an existing id ends with 204, removes exactly that
\* row and no related row, and a get on an id with no row ends with 404.
C5_DeleteRemovesExactlyOneRow ==
    \A p \in Procs :
        LET r == req[p] IN
        /\ (Finished(p, "delete") /\ r.id \notin MovieIds(r.snap.movies)) =>
              /\ r.status = 404
              /\ movies = r.snap.movies /\ rel = r.snap.rel
        /\ (Finished(p, "delete") /\ r.id \in MovieIds(r.snap.movies)) =>
              /\ r.status = 204
              /\ r.id \notin MovieIds(movies)
              /\ movies = r.snap.movies \ {RowById(r.snap.movies, r.id)}
              /\ Cardinality(movies) = Cardinality(r.snap.movies) - 1
              /\ rel = r.snap.rel
        /\ (Finished(p, "get") /\ r.id \notin MovieIds(r.snap.movies)) =>
              r.status = 404

C5_Witness ==
    \E p \in Procs :
        /\ Finished(p, "delete") /\ req[p].status = 204
        /\ Cardinality(req[p].snap.movies) = 2
        /\ Cardinality(movies) = 1
        /\ rel["genres"] # {}

\* C6: a successful list returns at most per_page movies in strictly
\* descending id order, and its i-th movie is the row that has exactly
\* (page-1)*per_page + i - 1 movie rows of greater id.
C6_ListReturnsThePage ==
    \A p \in Procs :
        (Finished(p, "list") /\ req[p].status = 200) =>
            LET r == req[p]
                all == r.snap.movies
                off == (r.page - 1) * r.per_page
                n == Len(r.result)
            IN  /\ n <= r.per_page
                /\ n = Min(r.per_page, Cardinality(all) - off)
                /\ \A i \in 1..n, j \in 1..n : i < j => r.result[i].id > r.result[j].id
                /\ \A i \in 1..n :
                      \E m \in all :
                          /\ m.id = r.result[i].id
                          /\ m.name = r.result[i].name /\ m.date = r.result[i].date
                          /\ m.score = r.result[i].score
                          /\ Cardinality({o \in all : o.id > m.id}) = off + i - 1

C6_Witness ==
    \E p \in Procs :
        /\ Finished(p, "list") /\ req[p].status = 200
        /\ req[p].page = 2 /\ req[p].per_page = 1
        /\ Cardinality(req[p].snap.movies) = 2
        /\ req[p].result[1].id = 1

\* C7: in a successful list response total_items is the number of movie
\* rows, total_pages is the least number of pages of per_page that hold
\* them, next_page is present iff page < total_pages and names page+1,
\* prev_page is present iff page > 1 and names page-1, both with per_page.
C7_ListTotalsAndLinks ==
    \A p \in Procs :
        (Finished(p, "list") /\ req[p].status = 200) =>
            LET r == req[p] IN
            /\ r.total_items = Cardinality(r.snap.movies)
            /\ r.total_pages * r.per_page >= r.total_items
            /\ (r.total_pages - 1) * r.per_page < r.total_items
            /\ (r.next_page # NoLink) <=> (r.page < r.total_pages)
            /\ (r.next_page # NoLink) => r.next_page = <<r.page + 1, r.per_page>>
            /\ (r.prev_page # NoLink) <=> (r.page > 1)
            /\ (r.prev_page # NoLink) => r.prev_page = <<r.page - 1, r.per_page>>

C7_Witness ==
    \E p \in Procs :
        /\ Finished(p, "list") /\ req[p].status = 200
        /\ req[p].page = 1 /\ req[p].per_page = 1
        /\ req[p].total_items = 2 /\ req[p].total_pages = 2
        /\ req[p].next_page = <<2, 1>> /\ req[p].prev_page = NoLink

\* C8: with requests run one at a time, list ends with 404 exactly when
\* the requested page is empty (no movie row, or the page lies past the
\* last one); otherwise it ends with 200 and a non-empty movies list.
C8_ListNotFoundIffPageEmpty ==
    \A p \in Procs :
        Finished(p, "list") =>
            LET r == req[p]
                n == Cardinality(r.snap.movies)
            IN  /\ (r.status = 404) <=> (n = 0 \/ (r.page - 1) * r.per_page >= n)
                /\ (r.status # 404) => (r.status = 200 /\ Len(r.result) >= 1)

C8_Witness ==
    \E p \in Procs :
        /\ Finished(p, "list") /\ req[p].status = 404
        /\ req[p].snap.movies # {}
        /\ req[p].page = 2 /\ req[p].per_page = 2

\* C9: a create that has passed its existence check commits its movie row
\* and its new related rows whatever other requests have committed since,
\* so two interleaved creates of one (name, date) both insert a row, and
\* two interleaved lookups of one missing key both insert a row for it.
C9_CheckedCreateCommitsRegardless ==
    [][\A p \in Procs :
          (req[p].op = "create" /\ req[p].pc = "commit" /\ req'[p].pc # "commit") =>
              /\ \E m \in movies' \ movies :
                    m.id = req'[p].id /\ SameNameDate(m, req[p].data)
              /\ \A t \in Tables : rel'[t] = rel[t] \cup req[p].pending[t]]_vars

C9_Witness ==
    /\ \E a \in movies, b \in movies : a.id # b.id /\ SameNameDate(a, b)
    /\ \E a \in rel["genres"], b \in rel["genres"] : a.id # b.id /\ a.key = b.key
    /\ \A p \in Procs : Finished(p, "create") /\ req[p].status = 201

\* C10 as claimed: every successful list response returns at most
\* total_items movies and has page <= total_pages, whatever other requests
\* commit between its page query and its count query.
C10_ListSelfConsistent ==
    \A p \in Procs :
        (Finished(p, "list") /\ req[p].status = 200) =>
            /\ Len(req[p].result) <= req[p].total_items
            /\ req[p].page <= req[p].total_pages

\* C10 as amended: the same, for a list between whose page query and count
\* query no delete of another request committed.
C10_ListSelfConsistentWithoutDelete ==
    \A p \in Procs :
        (Finished(p, "list") /\ req[p].status = 200 /\ req[p].dels = 0) =>
            /\ Len(req[p].result) <= req[p].total_items
            /\ req[p].page <= req[p].total_pages

C10_Witness ==
    \E p \in Procs :
        /\ Finished(p, "list") /\ req[p].status = 200 /\ req[p].dels = 0
        /\ req[p].total_items > Cardinality(req[p].snap.movies)
====
